---- MODULE Spec2Model ----
(***************************************************************************)
(* A model of the SMB Operations API (src/main.py, src/schemas.py): the    *)
(* FastAPI handlers over the MongoDB collections user, session, quote and  *)
(* contact.  A collection is the sequence of its documents in natural      *)
(* (insertion) order.  A handler that makes one store call is one action;  *)
(* a handler that makes several (register, login, create_user,             *)
(* create_quote) is one action per store call, so that requests served by  *)
(* different workers interleave between the calls.                         *)
(*                                                                         *)
(* Values are tagged records [t, v]: Python's None, a bson ObjectId, a     *)
(* str (the 24-hex form of an ObjectId, "str_hex", or any other string     *)
(* such as a token, "str_token"), a datetime and a float.  MongoDB         *)
(* compares values of different BSON types as different, which the tags    *)
(* keep.  Money is kept in hundredths and rounded from ten-thousandths.    *)
(***************************************************************************)
EXTENDS Integers, Sequences, FiniteSets, TLC

VARIABLES
    user,       \* collection "user"
    session,    \* collection "session"
    quote,      \* collection "quote"
    contact,    \* collection "contact"
    now,        \* datetime.now(timezone.utc), in instants
    nextId,     \* the next ObjectId the driver generates
    nextToken,  \* the next value of secrets.token_urlsafe
    qreq,       \* per worker: the quote request it serves or served last
    areq,       \* per worker: the auth/users request it serves or served last
    creq,       \* per worker: the contact request it serves or served last
    issued,     \* history: what create_quote stored, one entry per insert
    removed,    \* history: the ids delete_quote removed
    peak,       \* history: per user, the most create_quote calls in flight
    appended,   \* history: the contact store as create/append/delete build it
    settings,   \* collection "settings"
    sreq        \* per worker: the settings request it serves or served last

vars == <<user, session, quote, contact, now, nextId, nextToken,
          qreq, areq, creq, issued, removed, peak, appended, settings, sreq>>

----------------------------------------------------------------------------
(* Bounds                                                                  *)

MaxInFlight == 2
MaxTime == 2
MonthLen == 2
MaxQuotaQuotes == 6
FREE_QUOTES_PER_MONTH == 5

Slots == 1..MaxInFlight
Instants == 0..MaxTime

----------------------------------------------------------------------------
(* Values                                                                  *)

NoneV == [t |-> "None", v |-> 0]
ObjectId(n) == [t |-> "ObjectId", v |-> n]
StrHex(n) == [t |-> "str_hex", v |-> n]
StrToken(n) == [t |-> "str_token", v |-> n]
Datetime(n) == [t |-> "datetime", v |-> n]
Float(n) == [t |-> "float", v |-> n]

\* str(ObjectId): the 24-hex string of the id
str(oid) == StrHex(oid.v)

\* bson.ObjectId(s): defined on 24-hex strings only
IsValidObjectId(s) == s.t = "str_hex"
ObjectIdOf(s) == ObjectId(s.v)

\* secrets.token_urlsafe: the k-th value drawn, distinct from all before
token_urlsafe(k) == StrToken(k)

\* a string no token_urlsafe call has returned
ForgedToken == StrToken(0)

\* hashlib.sha256(password).hexdigest(): injective on the passwords used
hash_password(password) == <<"sha256", password>>

Max(a, b) == IF a >= b THEN a ELSE b

----------------------------------------------------------------------------
(* The document store (pymongo collection calls)                           *)

\* a filter document: the fields that must equal a value and the fields
\* that must be a datetime at or after one ({"$gte": d}); a stored value of
\* another BSON type matches neither
Eq(fields) == [eq |-> fields, gte |-> <<>>]

Gte(a, d) == a.t = "datetime" /\ a.v >= d.v

Matches(d, query) ==
    /\ \A f \in DOMAIN query.eq : f \in DOMAIN d /\ d[f] = query.eq[f]
    /\ \A f \in DOMAIN query.gte : f \in DOMAIN d /\ Gte(d[f], query.gte[f])

\* find(filter): the matching documents, in natural order
find(coll, query) == SelectSeq(coll, LAMBDA d : Matches(d, query))

\* find_one(filter): <<>> (None) or <<d>>, the first match
find_one(coll, query) ==
    LET m == find(coll, query) IN IF m = <<>> THEN <<>> ELSE <<m[1]>>

count_documents(coll, query) == Len(find(coll, query))

insert_one(coll, doc) == Append(coll, doc)

\* the index of the first match, 0 when none
FirstMatch(coll, query) ==
    IF \E i \in 1..Len(coll) : Matches(coll[i], query)
    THEN CHOOSE i \in 1..Len(coll) :
            /\ Matches(coll[i], query)
            /\ \A j \in 1..(i - 1) : ~Matches(coll[j], query)
    ELSE 0

\* {"$set": data}: data's fields replace or extend the document's
SetFields(doc, data) ==
    [f \in DOMAIN doc \cup DOMAIN data |->
        IF f \in DOMAIN data THEN data[f] ELSE doc[f]]

\* update_one(filter, {"$set": data}): the first match only
update_one_set(coll, query, data) ==
    LET i == FirstMatch(coll, query)
    IN IF i = 0 THEN coll ELSE [coll EXCEPT ![i] = SetFields(@, data)]

matched_count(coll, query) == IF FirstMatch(coll, query) = 0 THEN 0 ELSE 1

\* delete_one(filter): the first match only
delete_one(coll, query) ==
    LET i == FirstMatch(coll, query)
    IN IF i = 0 THEN coll
       ELSE [j \in 1..(Len(coll) - 1) |-> IF j < i THEN coll[j] ELSE coll[j + 1]]

----------------------------------------------------------------------------
(* Identity                                                                *)

AuthUser(doc) == [_id |-> str(doc._id), email |-> doc.email, role |-> doc.role]

NoUser == [_id |-> NoneV, email |-> "", role |-> ""]

\* get_current_user: [status, user]; 401 when the token is missing, is in no
\* session, or the session's user is gone
get_current_user(token) ==
    IF token = NoneV THEN [status |-> 401, user |-> NoUser]
    ELSE LET s == find_one(session, Eq([token |-> token]))
         IN IF s = <<>> THEN [status |-> 401, user |-> NoUser]
            ELSE LET u == find_one(user, Eq([_id |-> s[1].user_id]))
                 IN IF u = <<>> THEN [status |-> 401, user |-> NoUser]
                    ELSE [status |-> 200, user |-> AuthUser(u[1])]

----------------------------------------------------------------------------
(* Quotes                                                                  *)

\* round(x, 2) of x given in ten-thousandths, in hundredths (ties to even)
round2(x) ==
    LET q == x \div 100
        r == x % 100
    IN IF r > 50 \/ (r = 50 /\ q % 2 = 1) THEN q + 1 ELSE q

RECURSIVE SumSeq(_)
SumSeq(s) == IF s = <<>> THEN 0 ELSE s[1] + SumSeq(Tail(s))

\* subtotal and tax in ten-thousandths; tax_rate / 100.0 is tax_rate * 100 of them
compute_quote_total_notax(items) ==
    round2(SumSeq([k \in 1..Len(items) |->
                      items[k].unit_price * items[k].quantity * 10000]))

compute_quote_total(items) ==
    LET subtotal == SumSeq([k \in 1..Len(items) |->
                      items[k].unit_price * items[k].quantity * 10000])
        tax == SumSeq([k \in 1..Len(items) |->
                      (items[k].unit_price * items[k].quantity)
                          * (items[k].tax_rate * 100)])
    IN round2(subtotal + tax)

\* datetime(now.year, now.month, 1): the first instant of now's month
start_month(t) == Datetime((t.v \div MonthLen) * MonthLen)

\* the quota test with > for >=
QuotaReachedAbove(count) == count > FREE_QUOTES_PER_MONTH

\* create_quote's quota test (main.py 265)
QuotaReached(count) == count >= FREE_QUOTES_PER_MONTH

\* the filter of create_quote's count_documents
QuotaFilter(uid, t) ==
    [eq |-> [created_by |-> ObjectIdOf(uid)],
     gte |-> [created_at |-> start_month(t)]]

\* the filter of update_quote and delete_quote, without the owner
ById(id, uid) == Eq([_id |-> id])

\* the filter of update_quote and delete_quote: (id, creator == caller)
OwnedBy(id, uid) == Eq([_id |-> id, created_by |-> ObjectIdOf(uid)])

IdleQ == [op |-> "none", pc |-> "idle", caller |-> NoneV, id |-> NoneV,
          body |-> <<>>, now |-> 0, status |-> 0, result |-> <<>>]

QFree(r) == qreq[r].pc \in {"idle", "done"}

QDone(op, caller, id, body, status, result) ==
    [op |-> op, pc |-> "done", caller |-> caller, id |-> id, body |-> body,
     now |-> 0, status |-> status, result |-> result]

\* create_quote calls of user uid between their start and their answer
InFlight(reqs, uid) ==
    Cardinality({r \in Slots : reqs[r].op = "create_quote"
                                 /\ reqs[r].pc \in {"count", "insert"}
                                 /\ reqs[r].caller = uid})

quoteHist == <<issued, removed, peak>>
authVars == <<user, session, areq>>
contactVars == <<contact, creq, appended>>
settingsVars == <<settings, sreq>>

\* create_quote, to its reading of the clock (main.py 261-263)
CreateQuoteBegin(r, token, body) ==
    /\ QFree(r)
    /\ LET auth == get_current_user(token)
       IN IF auth.status # 200
          THEN /\ qreq' = [qreq EXCEPT ![r] =
                      QDone("create_quote", NoneV, NoneV, body, auth.status, <<>>)]
               /\ peak' = peak
          ELSE /\ qreq' = [qreq EXCEPT ![r] =
                      [op |-> "create_quote", pc |-> "count",
                       caller |-> auth.user._id, id |-> NoneV, body |-> body,
                       now |-> now, status |-> 0, result |-> <<>>]]
               /\ peak' = [peak EXCEPT ![auth.user._id.v] =
                              Max(@, InFlight(qreq', auth.user._id))]
    /\ UNCHANGED <<quote, now, nextId, nextToken, issued, removed>>
    /\ UNCHANGED <<authVars, contactVars, settingsVars>>

\* create_quote's count_documents and the quota check (main.py 264-266)
CreateQuoteCount(r) ==
    /\ qreq[r].op = "create_quote" /\ qreq[r].pc = "count"
    /\ LET q == qreq[r]
           count == count_documents(quote,
                        QuotaFilter(q.caller, Datetime(q.now)))
       IN qreq' = [qreq EXCEPT ![r] =
              IF QuotaReached(count)
              THEN QDone("create_quote", q.caller, NoneV, q.body, 402, <<>>)
              ELSE [q EXCEPT !.pc = "insert"]]
    /\ UNCHANGED <<quote, now, nextId, nextToken, quoteHist>>
    /\ UNCHANGED <<authVars, contactVars, settingsVars>>

\* create_quote's insert_one and answer (main.py 267-273)
CreateQuoteInsert(r) ==
    /\ qreq[r].op = "create_quote" /\ qreq[r].pc = "insert"
    /\ LET q == qreq[r]
           data == [q.body EXCEPT
                       !.total = Float(compute_quote_total(q.body.items)),
                       !.created_by = ObjectIdOf(q.caller),
                       !.created_at = Datetime(q.now),
                       !.public_token = token_urlsafe(nextToken)]
           doc == SetFields([_id |-> ObjectId(nextId)], data)
       IN /\ quote' = insert_one(quote, doc)
          /\ qreq' = [qreq EXCEPT ![r] =
                 QDone("create_quote", q.caller, str(doc._id), q.body, 200, <<doc>>)]
          /\ issued' = Append(issued, [_id |-> doc._id, creator |-> q.caller,
                                       public_token |-> doc.public_token,
                                       created_by |-> doc.created_by,
                                       created_at |-> doc.created_at])
    /\ nextId' = nextId + 1
    /\ nextToken' = nextToken + 1
    /\ UNCHANGED <<now, removed, peak>>
    /\ UNCHANGED <<authVars, contactVars, settingsVars>>

\* sort("created_at", -1): latest first, None last, ties in natural order
SortKey(d) == IF d.created_at.t = "datetime" THEN d.created_at.v ELSE -1

RECURSIVE SortDesc(_)
SortDesc(s) ==
    IF s = <<>> THEN <<>>
    ELSE LET i == CHOOSE i \in 1..Len(s) :
                     /\ \A j \in 1..Len(s) : SortKey(s[j]) <= SortKey(s[i])
                     /\ \A j \in 1..(i - 1) : SortKey(s[j]) < SortKey(s[i])
             rest == [j \in 1..(Len(s) - 1) |-> IF j < i THEN s[j] ELSE s[j + 1]]
         IN <<s[i]>> \o SortDesc(rest)

\* list_quotes' answer for an authenticated caller (main.py 278-286)
list_quotes(uid, status) ==
    LET query == IF status # ""
                 THEN Eq([created_by |-> ObjectIdOf(uid), status |-> status])
                 ELSE Eq([created_by |-> ObjectIdOf(uid)])
        sorted == SortDesc(find(quote, query))
    IN [k \in 1..Len(sorted) |->
           [sorted[k] EXCEPT !._id = str(@), !.created_by = str(@)]]

ListQuotes(r, token, status) ==
    /\ QFree(r)
    /\ LET auth == get_current_user(token)
       IN qreq' = [qreq EXCEPT ![r] =
              IF auth.status # 200
              THEN QDone("list_quotes", NoneV, NoneV, <<>>, auth.status, <<>>)
              ELSE QDone("list_quotes", auth.user._id, NoneV, <<>>, 200,
                         list_quotes(auth.user._id, status))]
    /\ UNCHANGED <<quote, now, nextId, nextToken, quoteHist>>
    /\ UNCHANGED <<authVars, contactVars, settingsVars>>

\* update_quote (main.py 290-296)
UpdateQuote(r, token, quote_id, body) ==
    /\ QFree(r)
    /\ LET auth == get_current_user(token)
           uid == auth.user._id
           data == [body EXCEPT !.total = Float(compute_quote_total(body.items))]
       IN IF auth.status # 200
          THEN /\ qreq' = [qreq EXCEPT ![r] =
                      QDone("update_quote", NoneV, quote_id, body, auth.status, <<>>)]
               /\ quote' = quote
          ELSE IF ~IsValidObjectId(quote_id)
          THEN /\ qreq' = [qreq EXCEPT ![r] =
                      QDone("update_quote", uid, quote_id, body, 400, <<>>)]
               /\ quote' = quote
          ELSE /\ quote' = update_one_set(quote,
                      OwnedBy(ObjectIdOf(quote_id), uid), data)
               /\ qreq' = [qreq EXCEPT ![r] =
                      IF matched_count(quote,
                            OwnedBy(ObjectIdOf(quote_id), uid)) = 0
                      THEN QDone("update_quote", uid, quote_id, body, 404, <<>>)
                      ELSE QDone("update_quote", uid, quote_id, body, 200,
                                 <<SetFields([_id |-> quote_id], data)>>)]
    /\ UNCHANGED <<now, nextId, nextToken, quoteHist>>
    /\ UNCHANGED <<authVars, contactVars, settingsVars>>

\* delete_quote (main.py 300-302)
DeleteQuote(r, token, quote_id) ==
    /\ QFree(r)
    /\ LET auth == get_current_user(token)
           uid == auth.user._id
       IN IF auth.status # 200
          THEN /\ qreq' = [qreq EXCEPT ![r] =
                      QDone("delete_quote", NoneV, quote_id, <<>>, auth.status, <<>>)]
               /\ UNCHANGED <<quote, removed>>
          ELSE IF ~IsValidObjectId(quote_id)
          THEN /\ qreq' = [qreq EXCEPT ![r] =
                      QDone("delete_quote", uid, quote_id, <<>>, 400, <<>>)]
               /\ UNCHANGED <<quote, removed>>
          ELSE /\ quote' = delete_one(quote, OwnedBy(ObjectIdOf(quote_id), uid))
               /\ removed' = IF quote' = quote THEN removed
                             ELSE removed \cup {ObjectIdOf(quote_id)}
               /\ qreq' = [qreq EXCEPT ![r] =
                      QDone("delete_quote", uid, quote_id, <<>>, 200, <<>>)]
    /\ UNCHANGED <<now, nextId, nextToken, issued, peak>>
    /\ UNCHANGED <<authVars, contactVars, settingsVars>>

\* what the public page shows of a quote (main.py 310-321)
public_view(d) == [items |-> d.items, status |-> d.status, total |-> d.total]

\* public_quote's answer (main.py 306-322)
public_quote(token) ==
    LET d == find_one(quote, Eq([public_token |-> token]))
    IN IF d = <<>> THEN [status |-> 404, result |-> <<>>]
       ELSE [status |-> 200, result |-> <<public_view(d[1])>>]

PublicQuote(r, token) ==
    /\ QFree(r)
    /\ LET a == public_quote(token)
       IN qreq' = [qreq EXCEPT ![r] =
              QDone("public_quote", NoneV, token, <<>>, a.status, a.result)]
    /\ UNCHANGED <<quote, now, nextId, nextToken, quoteHist>>
    /\ UNCHANGED <<authVars, contactVars, settingsVars>>

\* the clock advances
Tick ==
    /\ now < MaxTime
    /\ now' = now + 1
    /\ UNCHANGED <<user, session, quote, contact, nextId, nextToken,
                   qreq, areq, creq, issued, removed, peak, appended,
                   settingsVars>>

----------------------------------------------------------------------------
(* Initial states                                                          *)

IdleA == [op |-> "none", pc |-> "idle", body |-> <<>>, user_id |-> NoneV,
          status |-> 0, token |-> NoneV]

IdleC == [op |-> "none", pc |-> "idle", caller |-> NoneV, id |-> NoneV,
          body |-> <<>>, status |-> 0]

IdleS == [op |-> "none", pc |-> "idle", caller |-> NoneV, body |-> <<>>,
          status |-> 0]

Emails == {"a@x.io", "b@x.io"}
Passwords == {"pw1", "pw2"}
Roles == {"Admin", "Employee"}

UserDoc(n, email, role, password) ==
    [_id |-> ObjectId(n), email |-> email, role |-> role,
     hashed_password |-> hash_password(password), is_active |-> TRUE]

\* the store as two register calls leave it: an Admin and an Employee, each
\* holding the session token register returned
InitRegistered ==
    /\ user = <<UserDoc(1, "a@x.io", "Admin", "pw1"),
                UserDoc(2, "b@x.io", "Employee", "pw2")>>
    /\ session = <<[user_id |-> ObjectId(1), token |-> token_urlsafe(1)],
                   [user_id |-> ObjectId(2), token |-> token_urlsafe(2)]>>
    /\ quote = <<>>
    /\ contact = <<>>
    /\ now = 0
    /\ nextId = 3
    /\ nextToken = 3
    /\ qreq = [r \in Slots |-> IdleQ]
    /\ areq = [r \in Slots |-> IdleA]
    /\ creq = [r \in Slots |-> IdleC]
    /\ issued = <<>>
    /\ removed = {}
    /\ peak = [u \in 1..2 |-> 0]
    /\ appended = <<>>
    /\ settings = <<>>
    /\ sreq = [r \in Slots |-> IdleS]

SessionTokens == {token_urlsafe(1), token_urlsafe(2)}

----------------------------------------------------------------------------
(* The quota, one request at a time                                        *)

Item(p, q, t) == [name |-> "item", unit_price |-> p, quantity |-> q, tax_rate |-> t]

\* QuoteSchema's defaults around the given items
QuoteBody(items) ==
    [items |-> items, status |-> "Draft", total |-> NoneV,
     public_token |-> NoneV, created_by |-> NoneV, created_at |-> NoneV]

QuotaBodies == {QuoteBody(<<Item(100, 2, 20)>>)}

QuoteIds == {StrHex(n) : n \in 3..(nextId - 1)}

QuotaTokens == {token_urlsafe(1)}

NextQuota ==
    \/ \E token \in QuotaTokens, body \in QuotaBodies :
          /\ nextId < 3 + MaxQuotaQuotes
          /\ CreateQuoteBegin(1, token, body)
    \/ CreateQuoteCount(1)
    \/ CreateQuoteInsert(1)
    \/ \E token \in QuotaTokens : ListQuotes(1, token, "")
    \/ \E token \in QuotaTokens, id \in QuoteIds, body \in QuotaBodies :
          UpdateQuote(1, token, id, body)
    \/ Tick

SpecQuota == InitRegistered /\ [][NextQuota]_vars

\* the history entry of the quote create_quote stored under this id
IssuedOf(id) == issued[CHOOSE k \in 1..Len(issued) : issued[k]._id = id]

Months == {t \div MonthLen : t \in Instants}

\* C1: a user who created 5 quotes in a UTC month and deleted none of them
\* gets no 6th quote stored in that month, whatever list and update calls
\* came in between (requests served one at a time).
C1_QuotaEnforced ==
    \A u \in 1..2, m \in Months :
        LET mine == {k \in 1..Len(issued) :
                        /\ issued[k].creator = StrHex(u)
                        /\ issued[k].created_at.v \div MonthLen = m}
        IN (\A k \in mine : issued[k]._id \notin removed)
               => Cardinality(mine) <= FREE_QUOTES_PER_MONTH

----------------------------------------------------------------------------
(* Quote operations of two users, one request at a time                    *)

MaxQuotes == 2

ItemLists == {<<Item(100, 2, 20)>>, <<Item(10, 3, 0), Item(5, 1, 10)>>}

\* what a client may send in the fields the server manages: nothing, what
\* list_quotes showed it for the first quote, or a string of its own
ServerFields ==
    {[public_token |-> NoneV, created_by |-> NoneV, created_at |-> NoneV],
     [public_token |-> token_urlsafe(3), created_by |-> StrHex(1),
      created_at |-> Datetime(0)],
     [public_token |-> ForgedToken, created_by |-> NoneV, created_at |-> NoneV]}

\* bodies that vary the items and the total sent, and bodies that vary the
\* server-managed fields sent
QuoteBodies ==
    {[QuoteBody(i) EXCEPT !.total = t] : i \in ItemLists, t \in {NoneV, Float(1)}}
    \cup {[QuoteBody(<<Item(100, 2, 20)>>) EXCEPT
               !.public_token = f.public_token, !.created_by = f.created_by,
               !.created_at = f.created_at] : f \in ServerFields}

CallerTokens == SessionTokens \cup {ForgedToken}

QuoteIdInputs == {StrHex(n) : n \in 3..(2 + MaxQuotes)} \cup {ForgedToken}

PublicTokenInputs ==
    {token_urlsafe(k) : k \in 1..(2 + MaxQuotes)} \cup {ForgedToken}

NextQuote ==
    \/ \E token \in CallerTokens, body \in QuoteBodies :
          /\ nextId < 3 + MaxQuotes
          /\ CreateQuoteBegin(1, token, body)
    \/ CreateQuoteCount(1)
    \/ CreateQuoteInsert(1)
    \/ \E token \in CallerTokens, status \in {"", "Draft"} :
          ListQuotes(1, token, status)
    \/ \E token \in CallerTokens, id \in QuoteIdInputs, body \in QuoteBodies :
          UpdateQuote(1, token, id, body)
    \/ \E token \in CallerTokens, id \in QuoteIdInputs : DeleteQuote(1, token, id)
    \/ \E token \in PublicTokenInputs : PublicQuote(1, token)

SpecQuote == InitRegistered /\ [][NextQuote]_vars

\* the sum over the items of unit_price x quantity x (1 + tax_rate/100), in
\* ten-thousandths
TaxedSum(items) ==
    SumSeq([k \in 1..Len(items) |->
               items[k].unit_price * items[k].quantity
                   * (10000 + 100 * items[k].tax_rate)])

\* C2: every stored quote's total is the sum over its stored items of
\* unit_price x quantity x (1 + tax_rate/100), rounded to 2 decimal places,
\* whatever total the client sent to create_quote or update_quote.
C2_TotalRecomputed ==
    \A i \in 1..Len(quote) :
        quote[i].total = Float(round2(TaxedSum(quote[i].items)))

\* an update that sent total 0.01 succeeded, and the quote holds 35.50
C2_Witness ==
    \E r \in Slots, i \in 1..Len(quote) :
        /\ qreq[r].op = "update_quote" /\ qreq[r].status = 200
        /\ qreq[r].body.total = Float(1)
        /\ quote[i]._id = ObjectIdOf(qreq[r].id)
        /\ Len(quote[i].items) = 2
        /\ quote[i].total = Float(3550)

\* worker r has just answered an update_quote or delete_quote of an
\* authenticated caller for a stored quote that another user created
ForeignWrite(r) ==
    /\ qreq'[r] # qreq[r]
    /\ qreq'[r].pc = "done"
    /\ qreq'[r].op \in {"update_quote", "delete_quote"}
    /\ qreq'[r].caller # NoneV
    /\ IsValidObjectId(qreq'[r].id)
    /\ \E i \in 1..Len(quote) :
          /\ quote[i]._id = ObjectIdOf(qreq'[r].id)
          /\ IssuedOf(quote[i]._id).creator # qreq'[r].caller

\* C3: update_quote by an authenticated user who did not create the quote
\* answers 404 and delete_quote answers 200, and both leave the quote store
\* as it was.
C3_OwnershipIsolation ==
    [][\A r \in Slots :
          ForeignWrite(r) =>
              /\ quote' = quote
              /\ qreq'[r].status =
                     (IF qreq'[r].op = "update_quote" THEN 404 ELSE 200)]_vars

\* user 2 was answered 404 for an update of a stored quote of user 1
C3_Witness ==
    \E r \in Slots, i \in 1..Len(quote) :
        /\ qreq[r].op = "update_quote" /\ qreq[r].status = 404
        /\ qreq[r].caller = StrHex(2)
        /\ quote[i]._id = ObjectIdOf(qreq[r].id)
        /\ IssuedOf(quote[i]._id).creator = StrHex(1)

IssuedTokens == {issued[k].public_token : k \in 1..Len(issued)}

\* C4: for every stored quote, public_quote with the token create_quote
\* returned shows the items and total list_quotes shows its creator; and
\* public_quote answers 404 for a token create_quote never issued.
C4_PublicViewMatches ==
    /\ \A i \in 1..Len(quote) :
          LET g == IssuedOf(quote[i]._id)
              pub == public_quote(g.public_token)
              mine == list_quotes(g.creator, "")
          IN /\ pub.status = 200
             /\ \E k \in 1..Len(mine) :
                   /\ mine[k]._id = str(quote[i]._id)
                   /\ mine[k].items = pub.result[1].items
                   /\ mine[k].total = pub.result[1].total
    /\ \A token \in PublicTokenInputs \ IssuedTokens :
          public_quote(token).status = 404

\* C5: a stored quote keeps the public_token, created_by and created_at
\* create_quote gave it, and no two stored quotes share a public_token.
C5_ServerFieldsStable ==
    /\ \A i \in 1..Len(quote) :
          LET g == IssuedOf(quote[i]._id)
          IN /\ quote[i].public_token = g.public_token
             /\ quote[i].created_by = g.created_by
             /\ quote[i].created_at = g.created_at
    /\ \A i, j \in 1..Len(quote) :
          i # j => quote[i].public_token # quote[j].public_token

----------------------------------------------------------------------------
(* Registration, login and user administration, two workers                *)

MaxUsers == 2
MaxSessions == 3

AFree(r) == areq[r].pc \in {"idle", "done"}

ADone(op, body, user_id, status, token) ==
    [op |-> op, pc |-> "done", body |-> body, user_id |-> user_id,
     status |-> status, token |-> token]

AStep(op, pc, body, user_id) ==
    [op |-> op, pc |-> pc, body |-> body, user_id |-> user_id,
     status |-> 0, token |-> NoneV]

authRest == <<quote, contact, now, qreq, creq, issued, removed, peak, appended,
              settingsVars>>

\* login's test of what find_one returned, without the password
InvalidCredentialsEmailOnly(found, password) == found = <<>>

\* login's test of what find_one returned (main.py 113)
InvalidCredentials(found, password) ==
    found = <<>> \/ found[1].hashed_password # hash_password(password)

\* register's find_one and its answer to a used email (main.py 88-90)
RegisterFind(r, req) ==
    /\ AFree(r)
    /\ areq' = [areq EXCEPT ![r] =
           IF find_one(user, Eq([email |-> req.email])) # <<>>
           THEN ADone("register", req, NoneV, 400, NoneV)
           ELSE AStep("register", "insert_user", req, NoneV)]
    /\ UNCHANGED <<user, session, nextId, nextToken, authRest>>

\* register's insert_one of the user (main.py 91-99)
RegisterInsertUser(r) ==
    /\ areq[r].op = "register" /\ areq[r].pc = "insert_user"
    /\ LET req == areq[r].body
       IN /\ user' = insert_one(user,
                 UserDoc(nextId, req.email, req.role, req.password))
          /\ areq' = [areq EXCEPT ![r] =
                 AStep("register", "insert_session", req, ObjectId(nextId))]
    /\ nextId' = nextId + 1
    /\ UNCHANGED <<session, nextToken, authRest>>

\* register's insert_one of the session and its answer (main.py 100-106)
RegisterInsertSession(r) ==
    /\ areq[r].op = "register" /\ areq[r].pc = "insert_session"
    /\ session' = insert_one(session,
           [user_id |-> areq[r].user_id, token |-> token_urlsafe(nextToken)])
    /\ areq' = [areq EXCEPT ![r] =
           ADone("register", areq[r].body, areq[r].user_id, 200,
                 token_urlsafe(nextToken))]
    /\ nextToken' = nextToken + 1
    /\ UNCHANGED <<user, nextId, authRest>>

\* login's find_one and its answer to bad credentials (main.py 111-114)
LoginFind(r, req) ==
    /\ AFree(r)
    /\ LET found == find_one(user, Eq([email |-> req.email]))
       IN areq' = [areq EXCEPT ![r] =
              IF InvalidCredentials(found, req.password)
              THEN ADone("login", req, NoneV, 401, NoneV)
              ELSE AStep("login", "insert_session", req, found[1]._id)]
    /\ UNCHANGED <<user, session, nextId, nextToken, authRest>>

\* login's insert_one of the session and its answer (main.py 115-121)
LoginInsertSession(r) ==
    /\ areq[r].op = "login" /\ areq[r].pc = "insert_session"
    /\ session' = insert_one(session,
           [user_id |-> areq[r].user_id, token |-> token_urlsafe(nextToken)])
    /\ areq' = [areq EXCEPT ![r] =
           ADone("login", areq[r].body, areq[r].user_id, 200,
                 token_urlsafe(nextToken))]
    /\ nextToken' = nextToken + 1
    /\ UNCHANGED <<user, nextId, authRest>>

\* create_user's role check, find_one and answer to a used email
\* (main.py 388-393)
CreateUserFind(r, token, new_user) ==
    /\ AFree(r)
    /\ LET auth == get_current_user(token)
       IN areq' = [areq EXCEPT ![r] =
              IF auth.status # 200
              THEN ADone("create_user", new_user, NoneV, auth.status, NoneV)
              ELSE IF auth.user.role # "Admin"
              THEN ADone("create_user", new_user, NoneV, 403, NoneV)
              ELSE IF find_one(user, Eq([email |-> new_user.email])) # <<>>
              THEN ADone("create_user", new_user, NoneV, 400, NoneV)
              ELSE AStep("create_user", "insert_user", new_user, NoneV)]
    /\ UNCHANGED <<user, session, nextId, nextToken, authRest>>

\* create_user's insert_one and answer (main.py 394-403)
CreateUserInsert(r) ==
    /\ areq[r].op = "create_user" /\ areq[r].pc = "insert_user"
    /\ LET req == areq[r].body
       IN /\ user' = insert_one(user,
                 UserDoc(nextId, req.email, req.role, req.password))
          /\ areq' = [areq EXCEPT ![r] =
                 ADone("create_user", req, ObjectId(nextId), 200, NoneV)]
    /\ nextId' = nextId + 1
    /\ UNCHANGED <<session, nextToken, authRest>>

\* the store of a fresh deployment
InitEmpty ==
    /\ user = <<>>
    /\ session = <<>>
    /\ quote = <<>>
    /\ contact = <<>>
    /\ now = 0
    /\ nextId = 1
    /\ nextToken = 1
    /\ qreq = [r \in Slots |-> IdleQ]
    /\ areq = [r \in Slots |-> IdleA]
    /\ creq = [r \in Slots |-> IdleC]
    /\ issued = <<>>
    /\ removed = {}
    /\ peak = [u \in 1..2 |-> 0]
    /\ appended = <<>>
    /\ settings = <<>>
    /\ sreq = [r \in Slots |-> IdleS]

RegisterRequests == [email : Emails, password : Passwords, role : Roles]

LoginRequests == [email : Emails, password : Passwords]

AuthTokens == {token_urlsafe(k) : k \in 1..MaxSessions}

NextAuth ==
    \/ \E r \in Slots, req \in RegisterRequests :
          /\ Len(user) < MaxUsers /\ Len(session) < MaxSessions
          /\ RegisterFind(r, req)
    \/ \E r \in Slots : RegisterInsertUser(r)
    \/ \E r \in Slots : RegisterInsertSession(r)
    \/ \E r \in Slots, req \in LoginRequests :
          /\ Len(session) < MaxSessions
          /\ LoginFind(r, req)
    \/ \E r \in Slots : LoginInsertSession(r)
    \/ \E r \in Slots, token \in AuthTokens, req \in RegisterRequests :
          /\ Len(user) < MaxUsers
          /\ CreateUserFind(r, token, req)
    \/ \E r \in Slots : CreateUserInsert(r)

SpecAuth == InitEmpty /\ [][NextAuth]_vars

\* worker r has just taken up a request for op (its first store call done)
Answered(r, op) ==
    /\ AFree(r)
    /\ areq'[r] # areq[r]
    /\ areq'[r].op = op

EmailPresent(email) == \E i \in 1..Len(user) : user[i].email = email

\* the password is not the one of the first user document with this email
WrongPassword(email, password) ==
    LET i == CHOOSE i \in 1..Len(user) :
                 /\ user[i].email = email
                 /\ \A j \in 1..(i - 1) : user[j].email # email
    IN user[i].hashed_password # hash_password(password)

Refused(r, status) ==
    /\ areq'[r].pc = "done"
    /\ areq'[r].status = status
    /\ UNCHANGED <<user, session, nextId, nextToken>>

FailuresLeaveStores(conflict) ==
    \A r \in Slots :
        /\ (Answered(r, "register") /\ EmailPresent(areq'[r].body.email))
               => Refused(r, conflict)
        /\ (/\ Answered(r, "login")
            /\ (~EmailPresent(areq'[r].body.email)
                   \/ WrongPassword(areq'[r].body.email, areq'[r].body.password)))
               => Refused(r, 401)

C7_EmailsUnique ==
    \A i, j \in 1..Len(user) : i # j => user[i].email # user[j].email

----------------------------------------------------------------------------
(* create_quote calls of one user served by several workers                *)

NextRace ==
    \/ \E r \in Slots, token \in QuotaTokens, body \in QuotaBodies :
          /\ nextId < 3 + MaxQuotaQuotes
          /\ CreateQuoteBegin(r, token, body)
    \/ \E r \in Slots : CreateQuoteCount(r)
    \/ \E r \in Slots : CreateQuoteInsert(r)
    \/ Tick

SpecRace == InitRegistered /\ [][NextRace]_vars

\* the stored quotes of user u created in month m
MonthCount(u, m) ==
    Cardinality({i \in 1..Len(quote) :
                    /\ quote[i].created_by = ObjectId(u)
                    /\ quote[i].created_at.t = "datetime"
                    /\ quote[i].created_at.v \div MonthLen = m})

\* C8: while a user never has more than two create_quote calls in flight,
\* the user's stored quotes of one UTC month never number more than 6
\* (the quota and one); 6 is reached when two calls both pass the count.
C8_QuotaPlusOne ==
    \A u \in 1..2, m \in Months :
        peak[u] <= 2 => MonthCount(u, m) <= FREE_QUOTES_PER_MONTH + 1

\* user 1 holds 6 quotes of one month, with never more than two calls in flight
C8_Witness ==
    \E m \in Months :
        peak[1] <= 2 /\ MonthCount(1, m) = FREE_QUOTES_PER_MONTH + 1

----------------------------------------------------------------------------
(* Contacts and their interactions, two workers                            *)

MaxContacts == 2
MaxInteractions == 2

CFree(r) == creq[r].pc \in {"idle", "done"}

CDone(op, caller, id, body, status) ==
    [op |-> op, pc |-> "done", caller |-> caller, id |-> id, body |-> body,
     status |-> status]

contactRest == <<user, session, quote, now, nextToken, qreq, areq,
                 issued, removed, peak, settingsVars>>

\* {"$set": {"interactions": [data]}} in place of the $push
set_one(coll, query, data) ==
    LET i == FirstMatch(coll, query)
    IN IF i = 0 THEN coll ELSE [coll EXCEPT ![i].interactions = <<data>>]

\* update_one(filter, {"$push": {"interactions": data}}): one atomic append
push_one(coll, query, data) ==
    LET i == FirstMatch(coll, query)
    IN IF i = 0 THEN coll
       ELSE [coll EXCEPT ![i].interactions = Append(@, data)]

\* create_contact (main.py 165-169)
CreateContact(r, token, body) ==
    /\ CFree(r)
    /\ LET auth == get_current_user(token)
           data == SetFields(body, [created_by |-> ObjectIdOf(auth.user._id),
                                    created_at |-> Datetime(now)])
           doc == SetFields([_id |-> ObjectId(nextId)], data)
       IN IF auth.status # 200
          THEN /\ creq' = [creq EXCEPT ![r] =
                      CDone("create_contact", NoneV, NoneV, <<>>, auth.status)]
               /\ UNCHANGED <<contact, appended, nextId>>
          ELSE /\ contact' = insert_one(contact, doc)
               /\ appended' = Append(appended, doc)
               /\ nextId' = nextId + 1
               /\ creq' = [creq EXCEPT ![r] =
                      CDone("create_contact", auth.user._id, str(doc._id), <<>>, 200)]
    /\ UNCHANGED contactRest

\* update_contact (main.py 188-192)
UpdateContact(r, token, contact_id, body) ==
    /\ CFree(r)
    /\ LET auth == get_current_user(token)
           uid == auth.user._id
       IN IF auth.status # 200
          THEN /\ creq' = [creq EXCEPT ![r] =
                      CDone("update_contact", NoneV, contact_id, <<>>, auth.status)]
               /\ contact' = contact
          ELSE IF ~IsValidObjectId(contact_id)
          THEN /\ creq' = [creq EXCEPT ![r] =
                      CDone("update_contact", uid, contact_id, <<>>, 400)]
               /\ contact' = contact
          ELSE /\ contact' = update_one_set(contact,
                      Eq([_id |-> ObjectIdOf(contact_id)]),
                      SetFields(body, [updated_at |-> Datetime(now)]))
               /\ creq' = [creq EXCEPT ![r] =
                      IF matched_count(contact,
                            Eq([_id |-> ObjectIdOf(contact_id)])) = 0
                      THEN CDone("update_contact", uid, contact_id, <<>>, 404)
                      ELSE CDone("update_contact", uid, contact_id, <<>>, 200)]
    /\ UNCHANGED <<nextId, appended>>
    /\ UNCHANGED contactRest

\* delete_contact (main.py 196-198)
DeleteContact(r, token, contact_id) ==
    /\ CFree(r)
    /\ LET auth == get_current_user(token)
           uid == auth.user._id
       IN IF auth.status # 200
          THEN /\ creq' = [creq EXCEPT ![r] =
                      CDone("delete_contact", NoneV, contact_id, <<>>, auth.status)]
               /\ UNCHANGED <<contact, appended>>
          ELSE IF ~IsValidObjectId(contact_id)
          THEN /\ creq' = [creq EXCEPT ![r] =
                      CDone("delete_contact", uid, contact_id, <<>>, 400)]
               /\ UNCHANGED <<contact, appended>>
          ELSE /\ contact' = delete_one(contact,
                      Eq([_id |-> ObjectIdOf(contact_id)]))
               /\ appended' = SelectSeq(appended,
                      LAMBDA d : d._id # ObjectIdOf(contact_id))
               /\ creq' = [creq EXCEPT ![r] =
                      CDone("delete_contact", uid, contact_id, <<>>, 200)]
    /\ UNCHANGED nextId
    /\ UNCHANGED contactRest

\* add_interaction, to the built data: the Interaction is validated (its
\* date defaults to the clock) and user_id is set (main.py 240-242); a
\* malformed id is answered 400 by objid before any store call
AddInteractionBegin(r, token, contact_id, interaction) ==
    /\ CFree(r)
    /\ LET auth == get_current_user(token)
           uid == auth.user._id
           data == [type |-> interaction.type, content |-> interaction.content,
                    date |-> Datetime(now), user_id |-> uid]
       IN creq' = [creq EXCEPT ![r] =
              IF auth.status # 200
              THEN CDone("add_interaction", NoneV, contact_id, interaction, auth.status)
              ELSE IF ~IsValidObjectId(contact_id)
              THEN CDone("add_interaction", uid, contact_id, data, 400)
              ELSE [op |-> "add_interaction", pc |-> "push", caller |-> uid,
                    id |-> contact_id, body |-> data, status |-> 0]]
    /\ UNCHANGED <<contact, appended, nextId>>
    /\ UNCHANGED contactRest

\* add_interaction's update_one and answer (main.py 243-246)
AddInteractionPush(r) ==
    /\ creq[r].op = "add_interaction" /\ creq[r].pc = "push"
    /\ LET q == creq[r]
           id == ObjectIdOf(q.id)
       IN /\ contact' = push_one(contact, Eq([_id |-> id]), q.body)
          /\ appended' = [i \in 1..Len(appended) |->
                 IF appended[i]._id = id
                 THEN [appended[i] EXCEPT !.interactions = Append(@, q.body)]
                 ELSE appended[i]]
          /\ creq' = [creq EXCEPT ![r] =
                 IF matched_count(contact, Eq([_id |-> id])) = 0
                 THEN CDone("add_interaction", q.caller, q.id, q.body, 404)
                 ELSE CDone("add_interaction", q.caller, q.id, q.body, 200)]
    /\ UNCHANGED nextId
    /\ UNCHANGED contactRest

\* ContactSchema's defaults around the given status and interactions
ContactBody(status, interactions) ==
    [name |-> "Ann", status |-> status, interactions |-> interactions,
     created_by |-> NoneV]

Interactions == [type : {"note"}, content : {"hello"}]

ContactBodies == {ContactBody(st, <<>>) : st \in {"Prospect", "Client"}}

ContactIdInputs == {StrHex(n) : n \in 3..(2 + MaxContacts)} \cup {ForgedToken}

\* the interactions recorded so far, with the appends in flight
TotalInteractions ==
    SumSeq([i \in 1..Len(appended) |-> Len(appended[i].interactions)])
    + Cardinality({r \in Slots : creq[r].pc = "push"})

NextInteraction ==
    \/ \E r \in Slots, token \in SessionTokens, body \in ContactBodies :
          /\ nextId < 3 + MaxContacts
          /\ CreateContact(r, token, body)
    \/ \E r \in Slots, token \in SessionTokens, id \in ContactIdInputs :
          DeleteContact(r, token, id)
    \/ \E r \in Slots, token \in SessionTokens, id \in ContactIdInputs,
          interaction \in Interactions :
          /\ TotalInteractions < MaxInteractions
          /\ AddInteractionBegin(r, token, id, interaction)
    \/ \E r \in Slots : AddInteractionPush(r)

SpecInteraction == InitRegistered /\ [][NextInteraction]_vars

\* a body whose interactions the client filled in
SentInteraction ==
    [type |-> "call", content |-> "sent", date |-> Datetime(0), user_id |-> NoneV]

ContactBodiesSent == ContactBodies \cup {ContactBody("Client", <<SentInteraction>>)}

NextContact ==
    \/ \E token \in SessionTokens, body \in ContactBodiesSent :
          /\ nextId < 3 + MaxContacts
          /\ CreateContact(1, token, body)
    \/ \E token \in SessionTokens, id \in ContactIdInputs,
          body \in ContactBodiesSent :
          UpdateContact(1, token, id, body)
    \/ \E token \in SessionTokens, id \in ContactIdInputs :
          DeleteContact(1, token, id)
    \/ \E token \in SessionTokens, id \in ContactIdInputs,
          interaction \in Interactions :
          /\ TotalInteractions < MaxInteractions
          /\ AddInteractionBegin(1, token, id, interaction)
    \/ AddInteractionPush(1)

SpecContact == InitRegistered /\ [][NextContact]_vars

PushStep(r) ==
    /\ creq[r].op = "add_interaction" /\ creq[r].pc = "push"
    /\ creq'[r].pc = "done"

Present(id) == \E i \in 1..Len(contact) : contact[i]._id = id

\* C9: add_interaction answers 404 and changes nothing when the contact is
\* absent; otherwise it answers 200, and however the calls of the two
\* workers interleave, each contact's interactions are the ones it was
\* created with followed by every appended one, in the order applied.
C9_AppendsKept ==
    [][/\ contact' = appended'
       /\ \A r \in Slots :
             PushStep(r) =>
                 IF Present(ObjectIdOf(creq[r].id))
                 THEN creq'[r].status = 200
                 ELSE creq'[r].status = 404 /\ contact' = contact]_vars

\* both workers appended to the same contact, worker 2 first, for different
\* users, and the contact holds both in that order
C9_Witness ==
    \E i \in 1..Len(contact) :
        /\ \A r \in Slots :
              /\ creq[r].op = "add_interaction" /\ creq[r].status = 200
              /\ ObjectIdOf(creq[r].id) = contact[i]._id
        /\ creq[1].caller # creq[2].caller
        /\ contact[i].interactions = <<creq[2].body, creq[1].body>>

IsPrefix(s, t) == Len(s) <= Len(t) /\ \A k \in 1..Len(s) : s[k] = t[k]

\* C10: no contact operation removes, reorders or replaces a recorded
\* interaction: a contact's interactions before a step are a prefix of its
\* interactions after it.
C10_AppendOnly ==
    [][\A i \in 1..Len(contact), j \in 1..Len(contact') :
          contact[i]._id = contact'[j]._id
              => IsPrefix(contact[i].interactions, contact'[j].interactions)]_vars

----------------------------------------------------------------------------
(* Contact status: validated bodies and the CSV import                     *)

MaxRows == 2

\* ContactStatus (schemas.py 41)
ContactStatus == {"Prospect", "Client", "Negotiation"}

\* the validation of a request body against Contact: status is a Literal
ContactSchema(body) == body.status \in ContactStatus

\* row.get(key) of csv.DictReader: "" stands for None and for an empty cell,
\* which `or` treats alike
row_get(row, key) == IF key \in DOMAIN row THEN row[key] ELSE ""

\* a or b
Or(a, b) == IF a # "" THEN a ELSE b

\* the document import_contacts builds from a row (main.py 208-218)
import_contact(row, uid, t) ==
    [name |-> Or(row_get(row, "name"), row_get(row, "Name")),
     status |-> Or(row_get(row, "status"), "Prospect"),
     interactions |-> <<>>,
     created_by |-> ObjectIdOf(uid),
     created_at |-> Datetime(t)]

\* rows of import_contacts calls not yet processed
PendingRows ==
    SumSeq([r \in Slots |->
        IF creq[r].pc = "rows" THEN Len(creq[r].body.rows) ELSE 0])

\* a create or update whose body fails validation: the framework answers
\* before the handler runs (401 from get_current_user, else 422)
ContactInvalid(r, op, token, body) ==
    /\ CFree(r)
    /\ ~ContactSchema(body)
    /\ LET auth == get_current_user(token)
       IN creq' = [creq EXCEPT ![r] =
              CDone(op, NoneV, NoneV, <<>>,
                    IF auth.status # 200 THEN auth.status ELSE 422)]
    /\ UNCHANGED <<contact, appended, nextId>>
    /\ UNCHANGED contactRest

\* import_contacts, to the reader over the decoded file (main.py 202-206)
ImportContactsBegin(r, token, file) ==
    /\ CFree(r)
    /\ LET auth == get_current_user(token)
       IN creq' = [creq EXCEPT ![r] =
              IF auth.status # 200
              THEN CDone("import_contacts", NoneV, NoneV, <<>>, auth.status)
              ELSE [op |-> "import_contacts", pc |-> "rows",
                    caller |-> auth.user._id, id |-> NoneV,
                    body |-> [rows |-> file, inserted |-> 0], status |-> 0]]
    /\ UNCHANGED <<contact, appended, nextId>>
    /\ UNCHANGED contactRest

\* import_contacts, one turn of its loop, or its answer after the last row
\* (main.py 207-222)
ImportContactsRow(r) ==
    /\ creq[r].op = "import_contacts" /\ creq[r].pc = "rows"
    /\ LET q == creq[r]
           rows == q.body.rows
       IN IF rows = <<>>
          THEN /\ creq' = [creq EXCEPT ![r] =
                      CDone("import_contacts", q.caller, NoneV,
                            [inserted |-> q.body.inserted], 200)]
               /\ UNCHANGED <<contact, appended, nextId>>
          ELSE LET c == import_contact(Head(rows), q.caller, now)
                   doc == SetFields([_id |-> ObjectId(nextId)], c)
               IN IF c.name # ""
                  THEN /\ contact' = insert_one(contact, doc)
                       /\ appended' = Append(appended, doc)
                       /\ nextId' = nextId + 1
                       /\ creq' = [creq EXCEPT ![r].body =
                              [rows |-> Tail(rows), inserted |-> @.inserted + 1]]
                  ELSE /\ creq' = [creq EXCEPT ![r].body.rows = Tail(rows)]
                       /\ UNCHANGED <<contact, appended, nextId>>
    /\ UNCHANGED contactRest

\* request bodies as clients send them, valid or not
RawContactBodies == {ContactBody(st, <<>>) : st \in ContactStatus \cup {"Lead"}}

\* rows of an uploaded file, by header: a row with a status outside the
\* enum, one with capitalised headers, one without a name, one without a
\* status
CsvRows == {[name |-> "Ann", status |-> "Lead"],
            [Name |-> "Bob", status |-> "Client"],
            [name |-> "", status |-> "Client"],
            [name |-> "Cy"]}

CsvFiles == UNION {[1..n -> CsvRows] : n \in 0..MaxRows}

NextImport ==
    \/ \E token \in SessionTokens, body \in RawContactBodies :
          /\ ContactSchema(body)
          /\ nextId + PendingRows < 3 + MaxContacts
          /\ CreateContact(1, token, body)
    \/ \E token \in SessionTokens, id \in ContactIdInputs,
          body \in RawContactBodies :
          /\ ContactSchema(body)
          /\ UpdateContact(1, token, id, body)
    \/ \E token \in SessionTokens, body \in RawContactBodies,
          op \in {"create_contact", "update_contact"} :
          ContactInvalid(1, op, token, body)
    \/ \E r \in Slots, token \in SessionTokens, file \in CsvFiles :
          /\ nextId + PendingRows + Len(file) <= 3 + MaxContacts
          /\ ImportContactsBegin(r, token, file)
    \/ \E r \in Slots : ImportContactsRow(r)

SpecImport == InitRegistered /\ [][NextImport]_vars

\* C11: in every reachable state every stored contact has a status in
\* {Prospect, Client, Negotiation}, whether create_contact, update_contact
\* or the CSV import wrote it.
C11_StatusInEnum ==
    \A i \in 1..Len(contact) : contact[i].status \in ContactStatus

----------------------------------------------------------------------------
(* Settings, two workers                                                   *)

\* the n-th company name
Str(n) == [t |-> "str", v |-> n]

SFree(r) == sreq[r].pc \in {"idle", "done"}

SDone(op, caller, body, status) ==
    [op |-> op, pc |-> "done", caller |-> caller, body |-> body,
     status |-> status]

settingsRest == <<user, session, quote, contact, now, nextToken, qreq, areq,
                  creq, issued, removed, peak, appended>>

\* what get_settings answers while no document exists (main.py 410)
DefaultSettings ==
    [company_name |-> NoneV, language |-> "en", theme |-> "light"]

\* get_settings' answer over the store (main.py 408-413)
get_settings(coll) ==
    LET d == find_one(coll, Eq(<<>>))
    IN IF d = <<>> THEN DefaultSettings
       ELSE SetFields(d[1], [_id |-> str(d[1]._id)])

\* get_settings (main.py 407-413)
GetSettings(r, token) ==
    /\ SFree(r)
    /\ LET auth == get_current_user(token)
       IN sreq' = [sreq EXCEPT ![r] =
              IF auth.status # 200
              THEN SDone("get_settings", NoneV, <<>>, auth.status)
              ELSE SDone("get_settings", auth.user._id,
                         get_settings(settings), 200)]
    /\ UNCHANGED <<settings, nextId>>
    /\ UNCHANGED settingsRest

\* update_settings, to the end of the upsert's query: on a match the $set
\* is applied to the matched document in the same store operation; with no
\* match the store goes on to insert, and without a unique index on the
\* filter it does not hold back another upsert that found nothing either
\* (main.py 417-421)
UpdateSettings(r, token, body) ==
    /\ SFree(r)
    /\ LET auth == get_current_user(token)
           uid == auth.user._id
       IN IF auth.status # 200
          THEN /\ sreq' = [sreq EXCEPT ![r] =
                      SDone("update_settings", NoneV, <<>>, auth.status)]
               /\ settings' = settings
          ELSE IF auth.user.role # "Admin"
          THEN /\ sreq' = [sreq EXCEPT ![r] =
                      SDone("update_settings", uid, <<>>, 403)]
               /\ settings' = settings
          ELSE IF matched_count(settings, Eq(<<>>)) = 0
          THEN /\ sreq' = [sreq EXCEPT ![r] =
                      [op |-> "update_settings", pc |-> "insert",
                       caller |-> uid, body |-> body, status |-> 0]]
               /\ settings' = settings
          ELSE /\ settings' = update_one_set(settings, Eq(<<>>), body)
               /\ sreq' = [sreq EXCEPT ![r] =
                      SDone("update_settings", uid, body, 200)]
    /\ UNCHANGED nextId
    /\ UNCHANGED settingsRest

\* update_settings, the insert of an upsert that matched nothing, and the
\* answer (main.py 421-422)
UpdateSettingsInsert(r) ==
    /\ sreq[r].op = "update_settings" /\ sreq[r].pc = "insert"
    /\ LET q == sreq[r]
       IN /\ settings' = insert_one(settings,
                 SetFields([_id |-> ObjectId(nextId)], q.body))
          /\ nextId' = nextId + 1
          /\ sreq' = [sreq EXCEPT ![r] =
                 SDone("update_settings", q.caller, q.body, 200)]
    /\ UNCHANGED settingsRest

\* Settings bodies (schemas.py 104-107)
SettingsBodies ==
    {[company_name |-> c, language |-> l, theme |-> "light"] :
        c \in {NoneV, Str(1)}, l \in {"en", "fr"}}

NextSettings ==
    \/ \E r \in Slots, token \in CallerTokens : GetSettings(r, token)
    \/ \E r \in Slots, token \in CallerTokens, body \in SettingsBodies :
          UpdateSettings(r, token, body)
    \/ \E r \in Slots : UpdateSettingsInsert(r)

SpecSettings == InitRegistered /\ [][NextSettings]_vars

\* C12: the settings store holds at most one document in every reachable
\* state, for every sequence and interleaving of update_settings calls.
C12_SettingsSingleton == Len(settings) <= 1

RoleOf(uid) ==
    LET d == find_one(user, Eq([_id |-> ObjectIdOf(uid)])) IN d[1].role

\* The rest of C12: only a request of an Admin changes the settings store,
\* update_settings by anyone else answers 403 and leaves the store as it
\* was, and get_settings answers the defaults while no document exists.
SettingsAdminOnly ==
    [][/\ settings' # settings =>
             \E r \in Slots :
                 \/ /\ UpdateSettingsInsert(r)
                    /\ RoleOf(sreq[r].caller) = "Admin"
                 \/ \E token \in CallerTokens, body \in SettingsBodies :
                       /\ UpdateSettings(r, token, body)
                       /\ get_current_user(token).user.role = "Admin"
       /\ \A r \in Slots, token \in SessionTokens, body \in SettingsBodies :
             /\ UpdateSettings(r, token, body)
             /\ get_current_user(token).user.role # "Admin"
             => sreq'[r].status = 403 /\ settings' = settings
       /\ \A r \in Slots, token \in SessionTokens :
             GetSettings(r, token) /\ settings = <<>>
             => sreq'[r].body = DefaultSettings]_vars

\* an Employee's update_settings was refused, an Admin's was applied, and a
\* get_settings before any document existed was answered
SettingsAdminOnly_Witness ==
    /\ Len(settings) = 1
    /\ sreq[1].op = "update_settings" /\ sreq[1].status = 403
    /\ sreq[2].op = "update_settings" /\ sreq[2].status = 200

====
